---- MODULE Spec2Model ----
(***************************************************************************)
(* Model of app.py, the Streamlit study-assistant dashboard.               *)
(*                                                                         *)
(* Streamlit re-executes the whole script on every user interaction, so    *)
(* one action of this model is one script run: the metric row, the handler *)
(* of the button that was pressed (at most one button is pressed per run)  *)
(* and the rendering of the reminders tab.  The session state is the       *)
(* reminder list; everything else is what the run put on the page.         *)
(*                                                                         *)
(* Text is a sequence of characters.  Literal fragments of the source      *)
(* (f-string templates, fixed messages) are single tokens of a sequence.   *)
(***************************************************************************)
EXTENDS Integers, Sequences, FiniteSets, TLC

VARIABLES
    GOOGLE_API_KEY,   \* os.getenv("GOOGLE_API_KEY"): {} is None, {s} is the string s
    reminders,        \* st.session_state["reminders"]
    widgets,          \* the values of the sidebar and of the select-type widgets
    mode,             \* the radio of the notes tab, as rendered by the last run
    button,           \* the button whose press caused the last run ("none": a widget change)
    field,            \* the free-text field the pressed button's handler validated
    metric,           \* the "Reminders Saved" metric the last run displayed
    listed,           \* the reminder lines the last run wrote under "Your Reminders"
    clearButton,      \* whether the last run rendered "Clear All Reminders"
    notice,           \* the st.warning / st.success message of the last run
    heading,          \* the "### ..." heading written above a task result
    body,             \* the task result written by st.write / st.markdown
    calls,            \* invocations of call_study_agent in the last run
    sent,             \* requests handed to generate_content in the last run
    provider,         \* how the provider behaved on the last request
    crashed           \* whether an exception left the handler of the last run

vars == <<GOOGLE_API_KEY, reminders, widgets, mode, button, field, metric, listed,
          clearButton, notice, heading, body, calls, sent, provider, crashed>>

-----------------------------------------------------------------------------
(* Bounds of the model *)

MaxLen == 2          \* longest text typed by the user or returned by the provider
MaxReminders == 2    \* reminders added before the user clears the list

-----------------------------------------------------------------------------
(* Text *)

None == {}
Some(v) == {v}
TheValue(opt) == CHOOSE v \in opt : TRUE

Space == " "
ErrorPrefix == "Error calling model: "
KeyMissing == "ERROR: GOOGLE_API_KEY is not set. Please configure your .env file."

Chars == {Space, "a"}

SeqsUpTo(S, n) == UNION {[1..k -> S] : k \in 0..n}

UserTexts == SeqsUpTo(Chars, MaxLen)
ExceptionTexts == {<<"a">>, <<"a", Space>>}

IsSpace(c) == c = Space

RECURSIVE lstrip(_)
lstrip(s) == IF s # <<>> /\ IsSpace(Head(s)) THEN lstrip(Tail(s)) ELSE s

RECURSIVE rstrip(_)
rstrip(s) == IF s # <<>> /\ IsSpace(s[Len(s)])
             THEN rstrip(SubSeq(s, 1, Len(s) - 1)) ELSE s

stripLeftOnly(s) == lstrip(s)

stripNothing(s) == s

\* str.strip()
strip(s) == rstrip(lstrip(s))

\* "is not None", the test a credential check might have used instead of truthiness
IsNotNone(opt) == opt # None

\* Python truthiness of an Optional[str] such as os.getenv's result
Truthy(opt) == opt # None /\ TheValue(opt) # ""

\* (x or "") for an Optional text x
OrEmpty(opt) == IF opt = None \/ TheValue(opt) = <<>> THEN <<>> ELSE TheValue(opt)

-----------------------------------------------------------------------------
(* Sidebar and widget options *)

\* The select-type widgets keep their value from run to run; changing one
\* causes a run of its own.  Two settings are explored: the defaults of the
\* source and one where every widget was moved.  creativity is in tenths.
DefaultWidgets ==
    [model_choice |-> "gemini-2.0-flash", creativity |-> 7, study_mode |-> "Balanced",
     level |-> "School", style |-> "Step-by-step",
     summary_length |-> "Short", highlight |-> TRUE, depth |-> "Standard",
     num_questions |-> 5, quiz_type |-> "Multiple choice", difficulty |-> "Medium"]

OtherWidgets ==
    [model_choice |-> "gemini-2.0-pro", creativity |-> 0, study_mode |-> "Exam prep",
     level |-> "Graduate", style |-> "Simple",
     summary_length |-> "Detailed", highlight |-> FALSE, depth |-> "In-depth",
     num_questions |-> 20, quiz_type |-> "Mixed", difficulty |-> "Hard"]

WidgetSettings == {DefaultWidgets, OtherWidgets}

SummarizeMode == "Summarize my text"
TopicNotesMode == "Turn topic into structured notes"
NotesModes == {SummarizeMode, TopicNotesMode}

-----------------------------------------------------------------------------
(* The provider: what genai does with one generate_content call *)

top_p == 95               \* hundredths
top_k == 40
max_output_tokens == 1024

Returns == "returns"
CallRaises == "generate_content raises"      \* auth rejection, network error
TextRaises == "response.text raises"         \* malformed or blocked response

\* A provider text is ordinary text, or absent, or a text that reads exactly
\* like the message of a failed call.
ProviderTexts ==
    UserTexts \cup {<<ErrorPrefix>> \o e : e \in ExceptionTexts}

Providers ==
    [kind : {Returns}, text : {None} \cup {Some(t) : t \in ProviderTexts}, msg : {<<>>}]
    \cup [kind : {CallRaises, TextRaises}, text : {None}, msg : ExceptionTexts]

NoProvider == [kind |-> "not called", text |-> None, msg |-> <<>>]

-----------------------------------------------------------------------------
(* call_study_agent *)

\* A handler that lets the exception go instead of returning a message
ExceptReraise(request, e) ==
    [ret |-> <<>>, sent |-> <<request>>, raised |-> TRUE]

\* except Exception as e: return f"Error calling model: {e}"
ExceptClause(request, e) ==
    [ret |-> <<ErrorPrefix>> \o e, sent |-> <<request>>, raised |-> FALSE]

\* A try body that calls generate_content again after a failure
TryBodyRetry(request, p) ==
    IF p.kind = Returns
    THEN [ret |-> strip(OrEmpty(p.text)), sent |-> <<request>>, raised |-> FALSE]
    ELSE [ExceptClause(request, p.msg) EXCEPT !.sent = <<request, request>>]

\* The try statement: GenerationConfig and GenerativeModel are built from the
\* widgets' values (a float of the slider, one of the two model names), which
\* sends nothing; then one generate_content call; then response.text
TryBody(request, p) ==
    CASE p.kind = CallRaises -> ExceptClause(request, p.msg)
      [] p.kind = TextRaises -> ExceptClause(request, p.msg)
      [] p.kind = Returns ->
            [ret |-> strip(OrEmpty(p.text)), sent |-> <<request>>, raised |-> FALSE]

call_study_agent(system_prompt, user_prompt, model, temperature, p) ==
    IF ~Truthy(GOOGLE_API_KEY)
    THEN [ret |-> <<KeyMissing>>, sent |-> <<>>, raised |-> FALSE]
    ELSE LET generation_config ==
                 [temperature |-> temperature, top_p |-> top_p, top_k |-> top_k,
                  max_output_tokens |-> max_output_tokens]
             prompt == <<"System: ">> \o system_prompt \o <<"\n\nUser: ">> \o user_prompt
             request == [model |-> model, prompt |-> prompt,
                         generation_config |-> generation_config]
         IN  TryBody(request, p)

-----------------------------------------------------------------------------
(* What a run puts on the page *)

NoHeading == "none"
NoNotice == "none"
Traceback == <<"Traceback">>

\* the branch of a handler whose required field is blank: st.warning, no call
Warned(btn, required, warning) ==
    /\ button' = btn
    /\ field' = required
    /\ notice' = warning
    /\ heading' = NoHeading
    /\ body' = <<>>
    /\ calls' = 0
    /\ sent' = <<>>
    /\ provider' = NoProvider
    /\ crashed' = FALSE

\* the else branch: the spinner block calls call_study_agent once, then the
\* heading and the returned string are written
Answered(btn, required, title, r, p) ==
    /\ button' = btn
    /\ field' = required
    /\ notice' = NoNotice
    /\ calls' = 1
    /\ sent' = r.sent
    /\ provider' = IF r.sent = <<>> THEN NoProvider ELSE p
    /\ crashed' = r.raised
    /\ heading' = IF r.raised THEN NoHeading ELSE title
    /\ body' = IF r.raised THEN Traceback ELSE r.ret

\* a run in which no task button was pressed writes no task result
NoTask ==
    /\ heading' = NoHeading
    /\ body' = <<>>
    /\ calls' = 0
    /\ sent' = <<>>
    /\ provider' = NoProvider
    /\ crashed' = FALSE

\* A metric computed at the end of the script instead of in the header
MetricAtEnd(before, after) == Len(after)

\* st.metric("Reminders Saved", len(st.session_state["reminders"])), in the
\* header: before is the store at the start of the run, after at its end
MetricShown(before, after) == Len(before)

\* for i, r in enumerate(reminders, start=1): st.write(...)
Listing(rs) ==
    [i \in 1..Len(rs) |->
        [n |-> i, text |-> rs[i].text, when |-> rs[i].date \o " " \o rs[i].time]]

\* the reminders tab of a run in which neither of its buttons was pressed;
\* an exception that left a task handler ends the script before the tab
RemindersTabIdle(stopped) ==
    /\ metric' = MetricShown(reminders, reminders)
    /\ listed' = IF stopped THEN <<>> ELSE Listing(reminders)
    /\ clearButton' = (~stopped /\ reminders # <<>>)
    /\ UNCHANGED reminders

-----------------------------------------------------------------------------
(* The task handlers.  The text of a field is submitted with the button    *)
(* press; the provider's behaviour is the environment's choice.            *)

Subjects == {<<>>, <<"a">>}

\* if st.button("Get Answer"): ...
GetAnswer ==
    \E subject \in Subjects, question \in UserTexts, p \in Providers :
        LET system_prompt ==
                <<"You are a helpful personal study assistant for students. ",
                  "Explain concepts clearly, with examples. Adapt your explanation ",
                  "to a ", widgets.level, " student and keep the tone encouraging. ",
                  "Explanation style: ", widgets.style, ". ",
                  "Overall study mode: ", widgets.study_mode, ".">>
            user_prompt == <<"Subject: ">> \o subject \o <<"\nQuestion: ">> \o question
        IN  /\ IF strip(question) = <<>>
               THEN Warned("Get Answer", question, "Please enter a question.")
               ELSE Answered("Get Answer", question, "### Answer",
                             call_study_agent(system_prompt, user_prompt,
                                              widgets.model_choice, widgets.creativity, p),
                             p)
            /\ RemindersTabIdle(crashed')
            /\ UNCHANGED <<GOOGLE_API_KEY, widgets, mode>>

\* if st.button("Generate Summary"): ..., rendered when mode is "Summarize my text"
GenerateSummary ==
    /\ mode = SummarizeMode
    /\ \E text_to_summarize \in UserTexts, p \in Providers :
        LET system_prompt ==
                <<"You are an AI note-taker. Summarize the input text into clear study notes.\n",
                  "- Summary length: ", widgets.summary_length, ".\n",
                  "- Highlight key terms: ", IF widgets.highlight THEN "yes" ELSE "no", ".\n",
                  "- Overall study mode: ", widgets.study_mode, ".\n",
                  "- Use headings and bullet points where helpful.">>
        IN  /\ IF strip(text_to_summarize) = <<>>
               THEN Warned("Generate Summary", text_to_summarize,
                           "Please paste some text to summarize.")
               ELSE Answered("Generate Summary", text_to_summarize, "### Summary",
                             call_study_agent(system_prompt, text_to_summarize,
                                              widgets.model_choice, widgets.creativity, p),
                             p)
            /\ RemindersTabIdle(crashed')
            /\ UNCHANGED <<GOOGLE_API_KEY, widgets, mode>>

\* if st.button("Generate Topic Notes"): ..., rendered in the other mode
GenerateTopicNotes ==
    /\ mode = TopicNotesMode
    /\ \E topic \in UserTexts, p \in Providers :
        LET system_prompt ==
                <<"You are an expert tutor. Create structured study notes on the given topic.\n",
                  "- Use headings and bullet points.\n",
                  "- Include definitions, key formulas or dates, and simple examples.\n",
                  "- Depth: ", widgets.depth, ".\n",
                  "- Overall study mode: ", widgets.study_mode, ".">>
            user_prompt == <<"Create study notes on: ">> \o topic
        IN  /\ IF strip(topic) = <<>>
               THEN Warned("Generate Topic Notes", topic, "Please enter a topic.")
               ELSE Answered("Generate Topic Notes", topic, "### Generated Notes",
                             call_study_agent(system_prompt, user_prompt,
                                              widgets.model_choice, widgets.creativity, p),
                             p)
            /\ RemindersTabIdle(crashed')
            /\ UNCHANGED <<GOOGLE_API_KEY, widgets, mode>>

\* if st.button("Generate Quiz"): ...
GenerateQuiz ==
    \E quiz_topic \in UserTexts, p \in Providers :
        LET system_prompt ==
                <<"You are an AI quiz generator for students.\n",
                  "Create a quiz in Markdown format. Include clear numbering.\n",
                  "- Question type: ", widgets.quiz_type, ".\n",
                  "- Difficulty: ", widgets.difficulty, ".\n",
                  "- Overall study mode: ", widgets.study_mode, ".\n",
                  "- After the questions, provide an answer key clearly separated.">>
            user_prompt ==
                <<"Create a ", ToString(widgets.num_questions), "-question quiz on the topic: ">>
                \o quiz_topic
                \o <<".\n", "Use friendly wording appropriate for students.">>
        IN  /\ IF strip(quiz_topic) = <<>>
               THEN Warned("Generate Quiz", quiz_topic, "Please enter a quiz topic.")
               ELSE Answered("Generate Quiz", quiz_topic, "### Generated Quiz",
                             call_study_agent(system_prompt, user_prompt,
                                              widgets.model_choice, widgets.creativity, p),
                             p)
            /\ RemindersTabIdle(crashed')
            /\ UNCHANGED <<GOOGLE_API_KEY, widgets, mode>>

TaskButtons == {"Get Answer", "Generate Summary", "Generate Topic Notes", "Generate Quiz"}

\* a select-type widget or the notes radio is changed: a run with no button
ChangeWidgets ==
    \E w \in WidgetSettings, m \in NotesModes :
        /\ <<w, m>> # <<widgets, mode>>
        /\ widgets' = w
        /\ mode' = m
        /\ button' = "none"
        /\ field' = <<>>
        /\ notice' = NoNotice
        /\ NoTask
        /\ RemindersTabIdle(FALSE)
        /\ UNCHANGED GOOGLE_API_KEY

-----------------------------------------------------------------------------
(* The reminders tab *)

Pad2(n) == IF n < 10 THEN "0" \o ToString(n) ELSE ToString(n)

\* datetime.date.isoformat()
isoformat(d) == ToString(d.year) \o "-" \o Pad2(d.month) \o "-" \o Pad2(d.day)

\* datetime.time.strftime("%H:%M")
strftime(t) == Pad2(t.hour) \o ":" \o Pad2(t.minute)

Dates == {[year |-> 2026, month |-> 11, day |-> 1],
          [year |-> 2026, month |-> 12, day |-> 25]}

Times == {[hour |-> 18, minute |-> 0, second |-> 0]}

\* A record that keeps the text as typed
RawReminder(reminder_text, reminder_date, reminder_time) ==
    [text |-> reminder_text,
     date |-> isoformat(reminder_date),
     time |-> strftime(reminder_time)]

\* the dict appended by the Add Reminder handler
NewReminder(reminder_text, reminder_date, reminder_time) ==
    [text |-> strip(reminder_text),
     date |-> isoformat(reminder_date),
     time |-> strftime(reminder_time)]

\* An insertion at the front of the list
Prepended(rs, r) == <<r>> \o rs

\* list.append
Appended(rs, r) == Append(rs, r)

\* A clear that drops only the oldest entry
ClearedOldest(rs) == Tail(rs)

\* st.session_state["reminders"] = []
Cleared(rs) == <<>>

\* if st.button("Add Reminder"): ...
AddReminder ==
    \E reminder_text \in UserTexts, reminder_date \in Dates, reminder_time \in Times :
        /\ strip(reminder_text) # <<>> => Len(reminders) < MaxReminders
        /\ button' = "Add Reminder"
        /\ field' = reminder_text
        /\ IF strip(reminder_text) = <<>>
           THEN /\ notice' = "Please enter a reminder."
                /\ UNCHANGED reminders
           ELSE /\ reminders' = Appended(reminders,
                                   NewReminder(reminder_text, reminder_date, reminder_time))
                /\ notice' = "Reminder added!"
        /\ metric' = MetricShown(reminders, reminders')
        /\ listed' = Listing(reminders')
        /\ clearButton' = (reminders' # <<>>)
        /\ NoTask
        /\ UNCHANGED <<GOOGLE_API_KEY, widgets, mode>>

\* if st.button("Clear All Reminders"): ...; the button is inside the else
\* branch of "if not reminders", so a press only counts when the list the
\* run finds is not empty
ClearAllReminders ==
    /\ clearButton
    /\ button' = "Clear All Reminders"
    /\ field' = <<>>
    /\ IF reminders = <<>>
       THEN /\ listed' = <<>>
            /\ clearButton' = FALSE
            /\ notice' = NoNotice
            /\ UNCHANGED reminders
       ELSE /\ listed' = Listing(reminders)
            /\ clearButton' = TRUE
            /\ reminders' = Cleared(reminders)
            /\ notice' = "All reminders cleared."
    /\ metric' = MetricShown(reminders, reminders')
    /\ NoTask
    /\ UNCHANGED <<GOOGLE_API_KEY, widgets, mode>>

-----------------------------------------------------------------------------
(* Specifications *)

KeyValues == {None, Some(""), Some("k")}

\* the page after the first run of a new session
Init ==
    /\ GOOGLE_API_KEY \in KeyValues
    /\ reminders = <<>>
    /\ widgets = DefaultWidgets
    /\ mode = SummarizeMode
    /\ button = "none"
    /\ field = <<>>
    /\ metric = 0
    /\ listed = <<>>
    /\ clearButton = FALSE
    /\ notice = NoNotice
    /\ heading = NoHeading
    /\ body = <<>>
    /\ calls = 0
    /\ sent = <<>>
    /\ provider = NoProvider
    /\ crashed = FALSE

NextTasks ==
    \/ ChangeWidgets
    \/ GetAnswer
    \/ GenerateSummary
    \/ GenerateTopicNotes
    \/ GenerateQuiz

NextReminders ==
    \/ ChangeWidgets
    \/ AddReminder
    \/ ClearAllReminders

\* sessions in which the task buttons are used
SpecTasks == Init /\ [][NextTasks]_vars

\* sessions in which the reminder buttons are used
SpecReminders == Init /\ [][NextReminders]_vars

-----------------------------------------------------------------------------
(* Vocabulary of the properties, stated without the operators of the model *)

IsWhitespaceOnly(s) == \A i \in 1..Len(s) : s[i] = Space

NoEdgeWhitespace(s) == s = <<>> \/ (s[1] # Space /\ s[Len(s)] # Space)

Spaces(n) == [i \in 1..n |-> Space]

\* b is raw without the whitespace at its two ends
IsTrimOf(b, raw) ==
    /\ NoEdgeWhitespace(b)
    /\ \E i, j \in 0..Len(raw) : raw = Spaces(i) \o b \o Spaces(j)

IsPrefixOf(a, b) == Len(a) <= Len(b) /\ SubSeq(b, 1, Len(a)) = a

Warnings == {"Please enter a question.", "Please paste some text to summarize.",
             "Please enter a topic.", "Please enter a quiz topic."}

NoCredential == GOOGLE_API_KEY = None \/ GOOGLE_API_KEY = Some("")

ProviderFailed == provider.kind \in {CallRaises, TextRaises}

-----------------------------------------------------------------------------
(* C1: whichever task button is pressed, a required field that is empty or *)
(* whitespace-only gives a validation warning, and call_study_agent is not *)
(* called and nothing is sent to the provider in that run.                 *)
C1_BlankFieldWarnsWithoutCall ==
    (button \in TaskButtons /\ IsWhitespaceOnly(field)) =>
        /\ notice \in Warnings
        /\ calls = 0
        /\ sent = <<>>
        /\ heading = NoHeading

C1_Witness ==
    /\ GOOGLE_API_KEY = Some("k")
    /\ button = "Generate Quiz"
    /\ field = <<Space, Space>>
    /\ notice = "Please enter a quiz topic."

(* C2: without a credential (the variable unset or empty) every call of    *)
(* call_study_agent returns the missing-key error and nothing is sent to   *)
(* the provider, whatever the prompts, the model and the temperature.      *)
C2_NoCredentialNoNetwork ==
    (NoCredential /\ calls > 0) =>
        /\ sent = <<>>
        /\ body = <<KeyMissing>>
        /\ provider = NoProvider
        /\ ~crashed

C2_Witness ==
    /\ GOOGLE_API_KEY = Some("")
    /\ widgets = OtherWidgets
    /\ button = "Generate Topic Notes"
    /\ calls = 1
    /\ body = <<KeyMissing>>

(* C3: a failure of the provider call or of reading its response becomes   *)
(* the returned string "Error calling model: <message>"; no exception      *)
(* leaves call_study_agent, so the run writes a string under its heading.  *)
C3_FailuresBecomeStrings ==
    /\ ~crashed
    /\ body # Traceback
    /\ ProviderFailed =>
          /\ body = <<ErrorPrefix>> \o provider.msg
          /\ heading # NoHeading

C3_Witness ==
    /\ provider.kind = TextRaises
    /\ body = <<ErrorPrefix, "a", Space>>
    /\ heading = "### Summary"

(* C4: a call of call_study_agent that passes the credential check sends   *)
(* exactly one request to the provider, also when the call fails: no       *)
(* retry, and one failed run shows one error string.                       *)
C4_ExactlyOneNetworkCall ==
    /\ calls <= 1
    /\ (calls = 1 /\ ~NoCredential) => Len(sent) = 1
    /\ ProviderFailed => (Len(sent) = 1 /\ calls = 1)

C4_Witness ==
    /\ provider.kind = CallRaises
    /\ Len(sent) = 1
    /\ sent[1].model = "gemini-2.0-pro"
    /\ body = <<ErrorPrefix, "a">>

(* C7: the outcome of a valid dispatch can be told apart by the caller: a  *)
(* failed call is never shown the way some successful answer is shown.     *)
C7_FailureDistinguishable ==
    (calls = 1 /\ ProviderFailed) =>
        \A t \in ProviderTexts : ~IsTrimOf(body, t)

(* C8: when the provider returns, the result is its text without leading   *)
(* and trailing whitespace, and an empty or absent text gives the empty    *)
(* string under the result heading, not an error message.                  *)
C8_SuccessIsTrimmedText ==
    (provider.kind = Returns) =>
        LET raw == IF provider.text = None THEN <<>> ELSE TheValue(provider.text)
        IN  /\ IsTrimOf(body, raw)
            /\ IsWhitespaceOnly(raw) => body = <<>>
            /\ heading # NoHeading
            /\ notice = NoNotice

C8_Witness ==
    /\ provider.kind = Returns
    /\ provider.text = Some(<<"a", Space>>)
    /\ body = <<"a">>

-----------------------------------------------------------------------------
(* C5: an Add Reminder run whose text trims to empty warns and leaves the  *)
(* list unchanged; otherwise the list grows by exactly one record at the   *)
(* end and the earlier records keep their content and order.               *)
C5_AddAppendsOne ==
    [][button' = "Add Reminder" =>
         IF IsWhitespaceOnly(field')
         THEN reminders' = reminders /\ notice' = "Please enter a reminder."
         ELSE /\ Len(reminders') = Len(reminders) + 1
              /\ SubSeq(reminders', 1, Len(reminders)) = reminders
              /\ IsTrimOf(reminders'[Len(reminders')].text, field')]_vars

C5_Witness ==
    /\ button = "Add Reminder"
    /\ notice = "Reminder added!"
    /\ Len(reminders) = 2
    /\ reminders[1] # reminders[2]

(* C6: a Clear All Reminders run on a list of N > 0 records leaves none,   *)
(* and one on an already empty list leaves it empty: clearing twice is     *)
(* clearing once.                                                          *)
C6_ClearAllEmpties ==
    [][button' = "Clear All Reminders" => reminders' = <<>>]_vars

C6_Witness ==
    /\ button = "Clear All Reminders"
    /\ metric = MaxReminders
    /\ reminders = <<>>

(* C9: every stored reminder has a non-empty text without leading or       *)
(* trailing whitespace, and a step either leaves the list alone, appends   *)
(* one record to it, or is a clear-all that empties it.                    *)
C9_RecordsTrimmedAndAppendOnly ==
    /\ [](\A i \in 1..Len(reminders) :
            reminders[i].text # <<>> /\ NoEdgeWhitespace(reminders[i].text))
    /\ [][\/ reminders' = reminders
          \/ Len(reminders') = Len(reminders) + 1 /\ IsPrefixOf(reminders, reminders')
          \/ button' = "Clear All Reminders" /\ reminders' = <<>>]_vars

C9_Witness ==
    /\ button = "Add Reminder"
    /\ Len(reminders) = 2
    /\ field = <<Space, "a">>
    /\ reminders[2].text = <<"a">>

(* C10: the metric a run shows is the length of the list at the start of   *)
(* that run, and the list a clear-all run shows is the list before the     *)
(* clear: after an add or a clear-all the page's count is not the list's   *)
(* length.                                                                 *)
C10_MetricIsStartOfRun ==
    [][/\ metric' = Len(reminders)
       /\ reminders' # reminders => metric' # Len(reminders')
       /\ (button' = "Clear All Reminders" /\ reminders # <<>>) =>
              listed' = Listing(reminders)]_vars

C10_Witness ==
    /\ button = "Clear All Reminders"
    /\ listed # <<>>
    /\ reminders = <<>>
    /\ metric # Len(reminders)

====
